---- MODULE Spec2Model ----
\* AMeDAS download utility (notebooks/amedas/download.py): the station
\* registry, the URL construction, the fetch-and-cache protocol of
\* AmedasNode.save, and the loops of main over resolutions, dates and targets.
\*
\* Text is modelled as a sequence of symbols: one-character strings for the
\* text that is parsed or formatted (digits, names, codes), so that int,
\* float, split, f-strings and strftime are computed character by character,
\* and one symbol for each fixed literal of the program ("daily", "&year=").
\* A Path is the sequence of its segments.
EXTENDS Integers, Sequences, FiniteSets, TLC

VARIABLES
    csv_rows,      \* the lines of AMeDAS_list.csv, each the fields between tabs
    loaded,        \* get_amedas_nodes(): whether it ran, whether it raised, what it returned
    amedas_nodes,  \* the registry the save calls use: block_no -> AmedasNode
    fs0,           \* the cache files the process found when it started
    fs,            \* cache files: Path -> bytes written
    dirs,          \* directories that exist
    last,          \* record of the latest save call (arguments, steps taken, result)
    ncalls,        \* number of save calls made so far
    probe,         \* two save calls on an empty cache, side by side
    origin,        \* for each cache file, the save call that wrote it last
    mainst         \* main(): its configuration, its position in the loops, what it did

vars == <<csv_rows, loaded, amedas_nodes, fs0, fs, dirs, last, ncalls, probe, origin, mainst>>

-----------------------------------------------------------------------------
\* Bounds of the model

MaxRows == 3       \* lines in the reference table
MaxCalls == 2      \* save calls in one behaviour

-----------------------------------------------------------------------------
\* Text literals

None == <<"<None>">>      \* Python's None (no text of the model equals it)
NoneText == <<"None">>
Empty == <<>>
T10min == <<"10min">>
THourly == <<"hourly">>
TDaily == <<"daily">>
TRealTime == <<"real-time">>
TWeekly == <<"weekly">>
TRawHtml == <<"raw_html">>
TDotHtml == <<".html">>
TViewPrefix == <<"http://www.data.jma.go.jp/obd/stats/etrn/view/">>
TPhpPrec == <<"1.php?prec_no=">>
TBlockNo == <<"&block_no=">>
TYear == <<"&year=">>
TMonth == <<"&month=">>
TDay == <<"&day=">>
TView == <<"&view=">>
TTodayPrefix == <<"http://www.jma.go.jp/jp/amedas_h/today-">>
BOM == "<BOM>"     \* the byte-order mark utf-8-sig puts in front of the text

-----------------------------------------------------------------------------
\* Parsing and formatting

DigitChars == <<"0","1","2","3","4","5","6","7","8","9">>

IsDigit(c) == \E i \in 1..10 : DigitChars[i] = c

DigitVal(c) == (CHOOSE i \in 1..10 : DigitChars[i] = c) - 1

\* int(s) for a text of decimal digits; raised for None or any other text
RECURSIVE IntDigits(_)
IntDigits(s) ==
    IF s = <<>> THEN 0
    ELSE 10 * IntDigits(SubSeq(s, 1, Len(s) - 1)) + DigitVal(s[Len(s)])

IntParse(s) ==
    IF s # None /\ s # <<>> /\ \A i \in 1..Len(s) : IsDigit(s[i])
    THEN [raised |-> FALSE, value |-> IntDigits(s)]
    ELSE [raised |-> TRUE, value |-> 0]

RECURSIVE DropTrailingZeros(_)
DropTrailingZeros(s) ==
    IF s # <<>> /\ s[Len(s)] = "0" THEN DropTrailingZeros(SubSeq(s, 1, Len(s) - 1))
    ELSE s

\* float(s) for texts "ddd" and "ddd.ddd"; the value is kept as the integer
\* part and the significant fraction digits, so "1" and "1.0" are one value
FloatParse(s) ==
    LET dots == IF s = None THEN {} ELSE {i \in 1..Len(s) : s[i] = "."}
        cut == IF dots = {} THEN Len(s) + 1 ELSE CHOOSE i \in dots : TRUE
        ip == SubSeq(s, 1, cut - 1)
        fp == SubSeq(s, cut + 1, Len(s))
        ok == /\ s # None
              /\ Cardinality(dots) <= 1
              /\ Len(ip) + Len(fp) > 0
              /\ \A i \in 1..Len(s) : IsDigit(s[i]) \/ s[i] = "."
    IN  IF ok THEN [raised |-> FALSE, value |-> <<IntDigits(ip), DropTrailingZeros(fp)>>]
        ELSE [raised |-> TRUE, value |-> <<0, <<>>>>]

\* str(n) / f"{n}" for n >= 0
RECURSIVE IntText(_)
IntText(n) ==
    IF n < 10 THEN <<DigitChars[n + 1]>>
    ELSE IntText(n \div 10) \o <<DigitChars[(n % 10) + 1]>>

\* f"{n:02}" and strftime's %m, %d: at least two digits, zero padded
Pad2(n) == IF n < 10 THEN <<"0">> \o IntText(n) ELSE IntText(n)

\* f"{x}" of a str-or-None attribute
Fmt(x) == IF x = None THEN NoneText ELSE x

\* datetime.date(year, month, day)
Date(y, m, d) == [year |-> y, month |-> m, day |-> d]

\* f"{d:%Y_%m_%d}"
StrfYmd(d) == IntText(d.year) \o <<"_">> \o Pad2(d.month) \o <<"_">> \o Pad2(d.day)

-----------------------------------------------------------------------------
\* AmedasNode

UrlPartThreshold == 10000

\* variant: the threshold itself counted as category "a"
UrlPartInclusive(block_value) == IF block_value <= UrlPartThreshold THEN <<"a">> ELSE <<"s">>

\* "a" if int(block_no) < 10000 else "s"
UrlPart(block_value) == IF block_value < UrlPartThreshold THEN <<"a">> ELSE <<"s">>

\* AmedasNode.__init__: float(height) and int(block_no) may raise
NewAmedasNode(prec_no, block_no, name, id, area_code, group_code, height) ==
    LET h == FloatParse(height)
        b == IntParse(block_no)
    IN  IF h.raised \/ b.raised THEN [raised |-> TRUE, node |-> None]
        ELSE [raised |-> FALSE,
              node |-> [block_no |-> block_no, prec_no |-> prec_no, name |-> name,
                        id |-> id, area_code |-> area_code, group_code |-> group_code,
                        height |-> h.value, url_part |-> UrlPart(b.value)]]

-----------------------------------------------------------------------------
\* get_amedas_nodes

MinFields == 10

\* line.strip().split("\t") of a line given as its tab-separated fields (no
\* field holds white space): strip removes the tabs around leading and
\* trailing empty fields, and the empty line splits into one empty field
RECURSIVE DropLeadingEmpty(_)
DropLeadingEmpty(fields) ==
    IF fields # <<>> /\ Head(fields) = Empty THEN DropLeadingEmpty(Tail(fields))
    ELSE fields

RECURSIVE DropTrailingEmpty(_)
DropTrailingEmpty(fields) ==
    IF fields # <<>> /\ fields[Len(fields)] = Empty
    THEN DropTrailingEmpty(SubSeq(fields, 1, Len(fields) - 1))
    ELSE fields

StripSplit(line) ==
    LET f == DropTrailingEmpty(DropLeadingEmpty(line))
    IN  IF f = <<>> THEN <<Empty>> ELSE f

\* [None if x == "None" else x for x in fields]
Sentinel(fields) == [i \in 1..Len(fields) |-> IF fields[i] = NoneText THEN None ELSE fields[i]]

\* m with key k bound to v (dict item assignment: a later one wins)
Put(m, k, v) == [x \in DOMAIN m \cup {k} |-> IF x = k THEN v ELSE m[x]]

EmptyMap == [x \in {} |-> None]

\* variant: a line of exactly ten fields is skipped too
LoadLineSkipsTen(nodes, line) ==
    LET fields == Sentinel(StripSplit(line))
        n == Len(fields)
    IN  IF n <= MinFields THEN [raised |-> FALSE, nodes |-> nodes]
        ELSE LET made == NewAmedasNode(fields[1], fields[2], fields[3], fields[n - 2],
                                       fields[n - 1], fields[n], fields[n - 3])
             IN  IF made.raised THEN [raised |-> TRUE, nodes |-> nodes]
                 ELSE [raised |-> FALSE, nodes |-> Put(nodes, fields[2], made.node)]

\* one iteration of the for loop over the lines
LoadLine(nodes, line) ==
    LET fields == Sentinel(StripSplit(line))
        n == Len(fields)
    IN  IF n < MinFields THEN [raised |-> FALSE, nodes |-> nodes]
        ELSE LET made == NewAmedasNode(fields[1], fields[2], fields[3], fields[n - 2],
                                       fields[n - 1], fields[n], fields[n - 3])
             IN  IF made.raised THEN [raised |-> TRUE, nodes |-> nodes]
                 ELSE [raised |-> FALSE, nodes |-> Put(nodes, fields[2], made.node)]

RECURSIVE LoadLines(_, _)
LoadLines(nodes, lines) ==
    IF lines = <<>> THEN [raised |-> FALSE, nodes |-> nodes]
    ELSE LET r == LoadLine(nodes, Head(lines))
         IN  IF r.raised THEN [raised |-> TRUE, nodes |-> EmptyMap]
             ELSE LoadLines(r.nodes, Tail(lines))

get_amedas_nodes(lines) == LoadLines(EmptyMap, lines)

-----------------------------------------------------------------------------
\* AmedasNode._construct_url, _download_html, get_data

KnownViewTypes == {T10min, THourly, TDaily}

\* variant: every resolution that is no view resolution gets the real-time URL
ConstructUrlNoFallthrough(node, data_type, target_date) ==
    IF data_type \in KnownViewTypes
    THEN TViewPrefix \o data_type \o <<"_">> \o node.url_part \o TPhpPrec \o Fmt(node.prec_no)
         \o TBlockNo \o Fmt(node.block_no) \o TYear \o IntText(target_date.year)
         \o TMonth \o Pad2(target_date.month) \o TDay \o Pad2(target_date.day) \o TView
    ELSE TTodayPrefix \o Fmt(node.id) \o TDotHtml

\* variant: the real-time page addressed by station and day
ConstructUrlRealTimeDated(node, data_type, target_date) ==
    IF data_type \in KnownViewTypes
    THEN TViewPrefix \o data_type \o <<"_">> \o node.url_part \o TPhpPrec \o Fmt(node.prec_no)
         \o TBlockNo \o Fmt(node.block_no) \o TYear \o IntText(target_date.year)
         \o TMonth \o Pad2(target_date.month) \o TDay \o Pad2(target_date.day) \o TView
    ELSE IF data_type = TRealTime
    THEN TTodayPrefix \o Fmt(node.id) \o <<"_">> \o StrfYmd(target_date) \o TDotHtml
    ELSE None

_construct_url(node, data_type, target_date) ==
    IF data_type \in KnownViewTypes
    THEN TViewPrefix \o data_type \o <<"_">> \o node.url_part \o TPhpPrec \o Fmt(node.prec_no)
         \o TBlockNo \o Fmt(node.block_no) \o TYear \o IntText(target_date.year)
         \o TMonth \o Pad2(target_date.month) \o TDay \o Pad2(target_date.day) \o TView
    ELSE IF data_type = TRealTime
    THEN TTodayPrefix \o Fmt(node.id) \o TDotHtml
    ELSE None

\* What the remote side does with one GET: it answers with a body (possibly
\* empty), the connection fails, or reading the response text fails.
NetKinds == {"ok", "get_raises", "text_raises"}

\* requests.get(url) followed by response.text, as one outcome:
\* a None url is rejected before anything is sent (MissingSchema)
RequestsGetText(url, net) ==
    IF url = None THEN [raised |-> TRUE, text |-> None, requests |-> <<>>]
    ELSE IF net.kind = "ok" THEN [raised |-> FALSE, text |-> net.body, requests |-> <<url>>]
    ELSE [raised |-> TRUE, text |-> None, requests |-> <<url>>]

\* variant: no except clause, the exception leaves the method
DownloadHtmlUncaught(url, net) ==
    LET r == RequestsGetText(url, net)
    IN  [raised |-> r.raised, html |-> r.text, requests |-> r.requests]

\* variant: a failed request is sent once more
DownloadHtmlRetries(url, net) ==
    LET r == RequestsGetText(url, net)
    IN  IF r.raised
        THEN [raised |-> FALSE, html |-> None, requests |-> r.requests \o r.requests]
        ELSE [raised |-> FALSE, html |-> r.text, requests |-> r.requests]

\* try: ... except Exception: return None
_download_html(url, net) ==
    LET r == RequestsGetText(url, net)
    IN  IF r.raised THEN [raised |-> FALSE, html |-> None, requests |-> r.requests]
        ELSE [raised |-> FALSE, html |-> r.text, requests |-> r.requests]

get_data(node, data_type, target_date, net) ==
    LET url == _construct_url(node, data_type, target_date)
        d == _download_html(url, net)
    IN  [url |-> url, raised |-> d.raised, html |-> d.html, requests |-> d.requests]

-----------------------------------------------------------------------------
\* create_dir and AmedasNode.save

\* create_dir(path_list): the directories made, one per prefix
create_dir(path_list) == {SubSeq(path_list, 1, i) : i \in 1..Len(path_list)}

\* variant: the date is used as given for every resolution
DateToUseAsGiven(data_type, target_date) == target_date

\* date_to_use of save
DateToUse(data_type, target_date) ==
    IF data_type = TDaily THEN Date(target_date.year, target_date.month, 1)
    ELSE target_date

NodeDirName(node) == Fmt(node.block_no) \o <<"_">> \o Fmt(node.name)

DirPath(node, data_type, date_to_use) ==
    <<TRawHtml, data_type, NodeDirName(node), IntText(date_to_use.year)>>

FileName(node, date_to_use) ==
    NodeDirName(node) \o <<"_">> \o StrfYmd(date_to_use) \o TDotHtml

\* variant: the file name alone under raw_html, without the resolution
FilePathNoResolution(node, data_type, date_to_use) ==
    <<TRawHtml, NodeDirName(node), IntText(date_to_use.year), FileName(node, date_to_use)>>

FilePath(node, data_type, date_to_use) ==
    DirPath(node, data_type, date_to_use) \o <<FileName(node, date_to_use)>>

\* variant: `if html is not None:`
TruthyNotNone(html) == html # None

\* `if html:` is false for None and for the empty text
Truthy(html) == html # None /\ html # Empty

\* open("w", encoding="utf-8-sig").write(html): the bytes of the file
EncodeSig(html) == <<BOM>> \o html

\* reading the file back with utf-8-sig
DecodeSig(bytes) == IF bytes # <<>> /\ Head(bytes) = BOM THEN Tail(bytes) ELSE bytes

\* the paths whose existence or content differs between two file systems
Changed(f, g) ==
    {p \in DOMAIN f \cup DOMAIN g : p \notin DOMAIN f \/ p \notin DOMAIN g \/ f[p] # g[p]}

\* what lines 110-115 do once the fetch is decided
FetchAndWrite(node, data_type, date_to_use, file_path, net, files) ==
    LET g == get_data(node, data_type, date_to_use, net)
    IN  IF g.raised
        THEN [fs |-> files, fetched |-> TRUE, url |-> g.url, requests |-> g.requests,
              html |-> None, wrote |-> FALSE, ret |-> FALSE, raised |-> TRUE]
        ELSE [fs |-> IF Truthy(g.html) THEN Put(files, file_path, EncodeSig(g.html))
                     ELSE files,
              fetched |-> TRUE, url |-> g.url, requests |-> g.requests,
              html |-> g.html, wrote |-> Truthy(g.html), ret |-> TRUE, raised |-> FALSE]

\* what lines 116-117 do on a cache hit
CacheHit(files) ==
    [fs |-> files, fetched |-> FALSE, url |-> None, requests |-> <<>>,
     html |-> None, wrote |-> FALSE, ret |-> FALSE, raised |-> FALSE]

\* variant: an existing file is a hit even under force
SaveBodyIgnoresForce(node, data_type, date_to_use, file_path, force, net, files) ==
    IF file_path \notin DOMAIN files
    THEN FetchAndWrite(node, data_type, date_to_use, file_path, net, files)
    ELSE CacheHit(files)

\* variant: the existence check is missing
SaveBodyAlwaysFetches(node, data_type, date_to_use, file_path, force, net, files) ==
    FetchAndWrite(node, data_type, date_to_use, file_path, net, files)

\* variant: the fetched page is never written
SaveBodyNeverWrites(node, data_type, date_to_use, file_path, force, net, files) ==
    IF file_path \notin DOMAIN files \/ force
    THEN [FetchAndWrite(node, data_type, date_to_use, file_path, net, files)
            EXCEPT !.fs = files]
    ELSE CacheHit(files)

\* variant: an existing file without content is fetched again
SaveBodyRepairsEmpty(node, data_type, date_to_use, file_path, force, net, files) ==
    IF file_path \notin DOMAIN files \/ files[file_path] = <<>> \/ force
    THEN FetchAndWrite(node, data_type, date_to_use, file_path, net, files)
    ELSE CacheHit(files)

\* lines 109-117: the fetch-or-hit decision, the write and the return value
SaveBody(node, data_type, date_to_use, file_path, force, net, files) ==
    IF file_path \notin DOMAIN files \/ force
    THEN FetchAndWrite(node, data_type, date_to_use, file_path, net, files)
    ELSE CacheHit(files)

\* AmedasNode.save(data_type, target_date, force=force)
save(node, data_type, target_date, force, net, files, directories) ==
    LET date_to_use == DateToUse(data_type, target_date)
        dir_path == DirPath(node, data_type, date_to_use)
        file_path == FilePath(node, data_type, date_to_use)
        b == SaveBody(node, data_type, date_to_use, file_path, force, net, files)
    IN  [fs |-> b.fs,
         dirs |-> directories \cup create_dir(dir_path),
         call |-> [op |-> "save", block_no |-> node.block_no, data_type |-> data_type,
                   target_date |-> target_date, force |-> force, net |-> net,
                   date_to_use |-> date_to_use, file_path |-> file_path,
                   existed |-> file_path \in DOMAIN files,
                   old |-> IF file_path \in DOMAIN files THEN files[file_path] ELSE None,
                   fetched |-> b.fetched, url |-> b.url, requests |-> b.requests,
                   html |-> b.html, wrote |-> b.wrote, ret |-> b.ret, raised |-> b.raised,
                   changed |-> Changed(files, b.fs)]]

NoCall ==
    [op |-> "none", block_no |-> None, data_type |-> None, target_date |-> Date(0, 0, 0),
     force |-> FALSE, net |-> [kind |-> "ok", body |-> Empty], date_to_use |-> Date(0, 0, 0),
     file_path |-> <<>>, existed |-> FALSE, old |-> None, fetched |-> FALSE, url |-> None,
     requests |-> <<>>, html |-> None, wrote |-> FALSE, ret |-> FALSE, raised |-> FALSE,
     changed |-> {}]

-----------------------------------------------------------------------------
\* Inputs

TPrec == <<"1","4">>
TB9999 == <<"9","9","9","9">>
TB10000 == <<"1","0","0","0","0">>
TB47401 == <<"4","7","4","0","1">>
TNameS == <<"S","a","p">>
TNameK == <<"K","u","s">>
Mid == <<"m">>

\* a line of ten fields: prec_no, block_no, name, three ignored fields,
\* height, id, area_code, group_code
Line10(block_no, name, height, id, group_code) ==
    <<TPrec, block_no, name, Mid, Mid, Mid, height, id, <<"0","1">>, group_code>>

LineA == Line10(TB9999, TNameS, <<"1","7",".","2">>, <<"1","1">>, <<"g">>)
LineB == Line10(TB10000, TNameK, <<"4">>, <<"2","2">>, <<"g">>)
LineDup == Line10(TB9999, TNameK, <<"2",".","0">>, <<"3","3">>, <<"h">>)
LineShort == <<TPrec, TB47401, TNameS, Mid, <<"5">>>>
Line11 == <<TPrec, TB47401, NoneText, Mid, Mid, Mid, Mid, <<"0",".","5","0">>, NoneText, <<"0","2">>, <<"g">>>>
LineBadHeight == Line10(TB47401, TNameS, <<"x">>, <<"4","4">>, <<"g">>)
LineTrailingEmpty == Line10(TB47401, TNameK, <<"3">>, <<"5","5">>, Empty)

Lines == {LineA, LineB, LineDup, LineShort, Line11, LineBadHeight, LineTrailingEmpty}

RECURSIVE SeqsUpTo(_, _)
SeqsUpTo(S, n) ==
    IF n = 0 THEN {<<>>}
    ELSE LET shorter == SeqsUpTo(S, n - 1)
         IN  shorter \cup {Append(s, x) : s \in shorter, x \in S}

\* the table the save calls run against
DefaultRows == <<LineA, LineShort, LineB>>

DataTypes == {T10min, THourly, TDaily, TRealTime, TWeekly}

\* resolutions and dates of the save calls
SaveDataTypes == {THourly, TDaily, TWeekly}

SaveDates == {Date(2016, 4, 12), Date(2016, 4, 30)}

\* dates of the key and URL computations
KeyDates ==
    {Date(2016, 4, 12), Date(2016, 4, 30), Date(2016, 5, 1), Date(2016, 5, 13),
     Date(2016, 5, 31), Date(2015, 5, 13), Date(2016, 12, 9), Date(2017, 1, 31)}

\* the table of the key and URL computations
KeyRows == <<LineA, LineB, Line11>>

Bodies == {Empty, <<"A">>, <<BOM, "B">>}

NetOutcomes ==
    {[kind |-> "ok", body |-> b] : b \in Bodies}
    \cup {[kind |-> k, body |-> Empty] : k \in NetKinds \ {"ok"}}

NoProbe == [done |-> FALSE, first |-> NoCall, second |-> NoCall]

\* main() not started
NoMain == [pc |-> "off"]

\* the writer of each cache file after a save call: a call that wrote its
\* file is the file's latest writer
Written(writers, call) ==
    IF call.wrote
    THEN Put(writers, call.file_path,
             [block_no |-> call.block_no, data_type |-> call.data_type,
              date_to_use |-> call.date_to_use, requests |-> call.requests,
              net |-> call.net, whole |-> TRUE])
    ELSE writers

-----------------------------------------------------------------------------
\* The registry loader on its own: any table of up to MaxRows lines

NotLoaded == [done |-> FALSE, raised |-> FALSE, nodes |-> EmptyMap]

\* the state after main's call of get_amedas_nodes()
Loaded(lines) ==
    LET r == get_amedas_nodes(lines)
    IN  [done |-> TRUE, raised |-> r.raised, nodes |-> r.nodes]

InitLoad ==
    /\ csv_rows \in SeqsUpTo(Lines, MaxRows)
    /\ loaded = NotLoaded
    /\ amedas_nodes = EmptyMap
    /\ fs0 = EmptyMap
    /\ fs = EmptyMap
    /\ dirs = {}
    /\ last = NoCall
    /\ ncalls = 0
    /\ probe = NoProbe
    /\ origin = EmptyMap
    /\ mainst = NoMain

Load ==
    /\ ~loaded.done
    /\ loaded' = Loaded(csv_rows)
    /\ amedas_nodes' = loaded'.nodes
    /\ UNCHANGED <<csv_rows, fs0, fs, dirs, last, ncalls, probe, origin, mainst>>

NextLoad == Load

SpecLoad == InitLoad /\ [][NextLoad]_vars

-----------------------------------------------------------------------------
\* Save calls against the loaded registry.  The process starts on an empty
\* cache or on the cache an earlier run left behind.

\* an earlier run that saved one page
EarlierRun ==
    save(Loaded(DefaultRows).nodes[TB10000], THourly, Date(2016, 4, 30), FALSE,
         [kind |-> "ok", body |-> <<"A">>], EmptyMap, {})

StartCaches ==
    {[fs |-> EmptyMap, dirs |-> {}], [fs |-> EarlierRun.fs, dirs |-> EarlierRun.dirs]}

Init ==
    /\ csv_rows = DefaultRows
    /\ loaded = Loaded(csv_rows)
    /\ amedas_nodes = loaded.nodes
    /\ \E c \in StartCaches : fs0 = c.fs /\ fs = c.fs /\ dirs = c.dirs
    /\ last = NoCall
    /\ ncalls = 0
    /\ probe = NoProbe
    /\ origin = EmptyMap
    /\ mainst = NoMain

Save(block_no, data_type, target_date, force, net) ==
    /\ ncalls < MaxCalls
    /\ LET r == save(amedas_nodes[block_no], data_type, target_date, force, net, fs, dirs)
       IN  /\ fs' = r.fs
           /\ dirs' = r.dirs
           /\ last' = r.call
           /\ origin' = Written(origin, r.call)
    /\ ncalls' = ncalls + 1
    /\ UNCHANGED <<csv_rows, loaded, amedas_nodes, fs0, probe, mainst>>

Next ==
    \E block_no \in DOMAIN amedas_nodes, data_type \in SaveDataTypes, target_date \in SaveDates,
       force \in BOOLEAN, net \in NetOutcomes :
        Save(block_no, data_type, target_date, force, net)

Spec == Init /\ [][Next]_vars

-----------------------------------------------------------------------------
\* save calls of processes that may be killed while writing

\* the inputs of the calls that may be killed
CrashBlocks == {TB9999}
CrashDataTypes == {THourly, TDaily}

\* The process is killed inside lines 112-113: open("w") has created or
\* truncated the file, and a proper prefix of the encoded body (possibly
\* nothing) has reached it.  Only a call that got as far as the write can be
\* killed there: a miss or a forced call whose fetch returned a non-empty body.
SaveKilled(block_no, data_type, target_date, force, net) ==
    /\ ncalls < MaxCalls
    /\ \E r \in {save(amedas_nodes[block_no], data_type, target_date, force, net, fs, dirs)} :
           /\ r.call.wrote
           /\ \E k \in 0..(Len(EncodeSig(r.call.html)) - 1) :
                  /\ fs' = Put(fs, r.call.file_path, SubSeq(EncodeSig(r.call.html), 1, k))
                  /\ origin' = Put(origin, r.call.file_path,
                                   [block_no |-> r.call.block_no,
                                    data_type |-> r.call.data_type,
                                    date_to_use |-> r.call.date_to_use,
                                    requests |-> r.call.requests,
                                    net |-> r.call.net, whole |-> FALSE])
           /\ dirs' = r.dirs
           /\ last' = [r.call EXCEPT !.op = "killed"]
    /\ ncalls' = ncalls + 1
    /\ UNCHANGED <<csv_rows, loaded, amedas_nodes, fs0, probe, mainst>>

NextCrash ==
    \E block_no \in CrashBlocks, data_type \in CrashDataTypes, target_date \in SaveDates,
       force \in BOOLEAN, net \in NetOutcomes :
        \/ Save(block_no, data_type, target_date, force, net)
        \/ SaveKilled(block_no, data_type, target_date, force, net)

SpecCrash == Init /\ [][NextCrash]_vars

-----------------------------------------------------------------------------
\* Cache keys and URLs: save for one station and resolution and two dates,
\* each call on an empty cache

InitKeys ==
    /\ csv_rows = KeyRows
    /\ loaded = Loaded(csv_rows)
    /\ amedas_nodes = loaded.nodes
    /\ fs0 = EmptyMap
    /\ fs = EmptyMap
    /\ dirs = {}
    /\ last = NoCall
    /\ ncalls = 0
    /\ probe = NoProbe
    /\ origin = EmptyMap
    /\ mainst = NoMain

KeyProbe(block_no, data_type, date1, date2, net) ==
    /\ ~probe.done
    /\ probe' = [done |-> TRUE,
                 first |-> save(amedas_nodes[block_no], data_type, date1, FALSE, net,
                                EmptyMap, {}).call,
                 second |-> save(amedas_nodes[block_no], data_type, date2, FALSE, net,
                                 EmptyMap, {}).call]
    /\ UNCHANGED <<csv_rows, loaded, amedas_nodes, fs0, fs, dirs, last, ncalls, origin, mainst>>

NextKeys ==
    /\ ~probe.done
    /\ \E block_no \in DOMAIN amedas_nodes, data_type \in DataTypes,
          date1 \in KeyDates, date2 \in KeyDates, net \in NetOutcomes :
           KeyProbe(block_no, data_type, date1, date2, net)

SpecKeys == InitKeys /\ [][NextKeys]_vars

-----------------------------------------------------------------------------
\* Properties of save (specification Spec)

IsSave == last.op = "save"

\* the call was a miss or was forced, so lines 110-115 ran
Attempted == IsSave /\ (~last.existed \/ last.force)

\* the remote side was asked and answered with a non-empty body
ObtainedBody ==
    /\ last.requests # <<>>
    /\ last.net.kind = "ok"
    /\ last.net.body # Empty

\* the cache file of the call holds the body the remote side sent
FileHoldsBody ==
    /\ last.file_path \in DOMAIN fs
    /\ DecodeSig(fs[last.file_path]) = last.net.body

ResolutionSet == {T10min, THourly, TDaily, TRealTime}

\* C1: save returns true only if the call downloaded (a GET was made, a body
\* was obtained and written to the cache file) and returns false on a cache
\* hit; a call whose fetch obtained no data does not return true.
C1_TrueOnlyIfDownloaded ==
    IsSave =>
        /\ ~last.raised
        /\ last.ret => (ObtainedBody /\ FileHoldsBody)
        /\ (last.existed /\ ~last.force) => ~last.ret

\* C2 as stated: two save calls in a row with identical arguments and
\* force=false, the first on an uncached tuple, make exactly one network call
\* in total, and the second makes none and returns false.
C2_TwiceOneCall ==
    [][(/\ ncalls' = ncalls + 1
        /\ IsSave
        /\ ~last.existed /\ ~last.force /\ ~last'.force
        /\ last'.block_no = last.block_no
        /\ last'.data_type = last.data_type
        /\ last'.target_date = last.target_date)
       => (/\ Len(last.requests) + Len(last'.requests) = 1
           /\ last'.requests = <<>>
           /\ ~last'.ret)]_vars

\* C2 amended: the same, for a first call whose fetch obtained a non-empty
\* body; the second call then does not fetch, changes no file and returns false.
C2_TwiceOneCallAfterBody ==
    [][(/\ ncalls' = ncalls + 1
        /\ IsSave
        /\ ~last.existed /\ ~last.force /\ ~last'.force
        /\ ObtainedBody
        /\ last'.block_no = last.block_no
        /\ last'.data_type = last.data_type
        /\ last'.target_date = last.target_date)
       => (/\ Len(last.requests) + Len(last'.requests) = 1
           /\ last'.existed /\ ~last'.fetched
           /\ last'.requests = <<>>
           /\ last'.changed = {}
           /\ ~last'.ret /\ ~last'.raised)]_vars

\* a second call that found exactly the one file a first call wrote: for
\* hourly the only call that writes this path has the same station and date
C2_Witness ==
    /\ fs0 = EmptyMap /\ ncalls = 2 /\ IsSave
    /\ last.data_type = THourly
    /\ last.existed /\ ~last.force /\ ~last.ret
    /\ DOMAIN fs = {last.file_path}

\* C3 as stated: on an existing cache file, save with force=true makes a
\* network call and afterwards the file holds the newly fetched body.
C3_ForceOverwrites ==
    (IsSave /\ last.existed /\ last.force) =>
        /\ last.requests # <<>>
        /\ last.net.kind = "ok"
        /\ FileHoldsBody

\* C3 amended: on an existing cache file, save with force=true always runs the
\* fetch, which for a known resolution sends one request; if a non-empty body
\* is obtained the file holds it afterwards, whatever it held before;
\* otherwise the file keeps its previous content.
C3_ForceFetchesAndOverwritesOnBody ==
    (IsSave /\ last.existed /\ last.force) =>
        /\ last.fetched
        /\ last.data_type \in ResolutionSet => last.requests = <<last.url>> /\ last.url # None
        /\ IF ObtainedBody THEN FileHoldsBody
           ELSE last.file_path \in DOMAIN fs /\ fs[last.file_path] = last.old

\* a forced call replaced a file by a different body
C3_Witness ==
    /\ IsSave /\ last.existed /\ last.force
    /\ ObtainedBody /\ FileHoldsBody
    /\ DecodeSig(last.old) # last.net.body

\* C4: on a cache hit (file exists, force is false) save builds no URL, makes
\* no network call, leaves every cache file as it was and returns false.
C4_HitTouchesNothing ==
    (IsSave /\ last.existed /\ ~last.force) =>
        /\ ~last.fetched
        /\ last.url = None
        /\ last.requests = <<>>
        /\ last.changed = {}
        /\ last.file_path \in DOMAIN fs /\ fs[last.file_path] = last.old
        /\ ~last.ret /\ ~last.raised

\* a cache hit while another cache file exists too
C4_Witness ==
    /\ IsSave /\ last.existed /\ ~last.force
    /\ Cardinality(DOMAIN fs) = 2

\* C5: on a miss or a forced call, the cache file is written if and only if
\* the fetch obtained a non-empty body: that body goes to exactly the computed
\* path, and an empty or absent body creates or modifies no file.
C5_WritesIffBody ==
    Attempted =>
        IF ObtainedBody
        THEN /\ last.wrote
             /\ last.file_path =
                    FilePath(amedas_nodes[last.block_no], last.data_type,
                             DateToUse(last.data_type, last.target_date))
             /\ FileHoldsBody
             /\ last.changed \subseteq {last.file_path}
        ELSE ~last.wrote /\ last.changed = {}

\* a miss answered with an empty body, next to a file an earlier call wrote
C5_Witness ==
    /\ Attempted /\ ~last.existed
    /\ last.requests # <<>> /\ last.net.kind = "ok" /\ last.net.body = Empty
    /\ last.file_path \notin DOMAIN fs
    /\ fs0 = EmptyMap /\ DOMAIN fs # {}

\* C6: when the GET or the reading of its response fails, no exception leaves
\* save and every cache file is as before: an absent file stays absent, and
\* under force an existing file keeps its content.
C6_FailureContained ==
    (IsSave /\ last.requests # <<>> /\ last.net.kind # "ok") =>
        /\ ~last.raised
        /\ last.changed = {}
        /\ last.existed <=> last.file_path \in DOMAIN fs
        /\ last.existed => fs[last.file_path] = last.old

\* a forced call on an existing file whose fetch failed
C6_Witness ==
    /\ IsSave /\ last.requests # <<>> /\ last.net.kind = "text_raises"
    /\ last.existed /\ last.force
    /\ fs[last.file_path] = last.old

\* C7: for a data_type outside the four resolutions _construct_url returns no
\* URL, and save sends no request, writes no cache file and raises nothing.
C7_UnknownResolutionNoOp ==
    (IsSave /\ last.data_type \notin ResolutionSet) =>
        /\ last.fetched => last.url = None
        /\ last.requests = <<>>
        /\ ~last.wrote /\ last.changed = {}
        /\ \A p \in DOMAIN fs : p[2] # last.data_type
        /\ ~last.raised

\* a save call with resolution "weekly" that went to the fetch
C7_Witness ==
    /\ IsSave /\ last.data_type = TWeekly /\ last.fetched
    /\ last.net.kind = "ok" /\ last.net.body # Empty

-----------------------------------------------------------------------------
\* Properties of the cache key and the URL (specification SpecKeys)

SameMonth(d, e) == d.year = e.year /\ d.month = e.month

\* C8: for daily resolution and one station, two dates of the same month of
\* the same year have the same cache path, keyed by the first day of the
\* month, and the same URL, for that month and day 01; for every other
\* resolution the date is used as given and distinct dates have distinct paths.
C8_DailyNormalization ==
    probe.done =>
        LET a == probe.first
            b == probe.second
            node == amedas_nodes[a.block_no]
            first_day == Date(a.target_date.year, a.target_date.month, 1)
        IN  /\ (a.data_type = TDaily /\ SameMonth(a.target_date, b.target_date)) =>
                /\ a.file_path = b.file_path
                /\ a.url = b.url
                /\ a.file_path = <<TRawHtml, TDaily, NodeDirName(node),
                                   IntText(first_day.year),
                                   NodeDirName(node) \o <<"_">> \o IntText(first_day.year)
                                   \o <<"_">> \o Pad2(first_day.month) \o <<"_", "0", "1">>
                                   \o TDotHtml>>
                /\ SubSeq(a.url, Len(a.url) - 6, Len(a.url)) =
                       TMonth \o Pad2(a.target_date.month) \o TDay \o <<"0", "1">> \o TView
            /\ (a.data_type # TDaily /\ a.target_date # b.target_date) =>
                /\ a.date_to_use = a.target_date /\ b.date_to_use = b.target_date
                /\ a.file_path # b.file_path

\* daily requests for two different days of one month
C8_Witness ==
    /\ probe.done
    /\ probe.first.data_type = TDaily
    /\ probe.first.target_date = Date(2016, 5, 13)
    /\ probe.second.target_date = Date(2016, 5, 31)
    /\ probe.first.file_path = probe.second.file_path
    /\ probe.first.requests # <<>>

\* C9: a station's URL category is "a" if and only if the numeric value of
\* its block code is below 10000 and "s" otherwise (10000 itself is "s"), and
\* every URL built for 10min, hourly or daily carries that category.
C9_UrlCategory ==
    /\ \A b \in DOMAIN amedas_nodes :
           /\ amedas_nodes[b].url_part = <<"a">> <=> IntParse(b).value < 10000
           /\ amedas_nodes[b].url_part = <<"s">> <=> IntParse(b).value >= 10000
    /\ (probe.done /\ probe.first.data_type \in {T10min, THourly, TDaily}) =>
           LET a == probe.first
               category == IF IntParse(a.block_no).value < 10000 THEN "a" ELSE "s"
           IN  /\ a.url # None
               /\ SubSeq(a.url, 1, 5) = TViewPrefix \o a.data_type \o <<"_", category>> \o TPhpPrec

\* a URL built for the station with block code 10000
C9_Witness ==
    /\ probe.done
    /\ probe.first.block_no = TB10000
    /\ probe.first.data_type = T10min
    /\ probe.first.url[4] = "s"

-----------------------------------------------------------------------------
\* Properties of get_amedas_nodes (specification SpecLoad)

\* the fields of line i that count: those left after the line is stripped
Fields(i) == StripSplit(csv_rows[i])

Counted(i) == Len(Fields(i)) >= 10

\* a counted line whose elevation or block code is no number
Fatal(i) ==
    /\ Counted(i)
    /\ \/ FloatParse(Fields(i)[Len(Fields(i)) - 3]).raised
       \/ IntParse(Fields(i)[2]).raised

Absent(x) == IF x = NoneText THEN None ELSE x

\* node holds the fields of line f: prec_no, block_no, name first and
\* height, id, area_code, group_code last
HoldsFields(node, f) ==
    LET n == Len(f)
    IN  /\ node.prec_no = Absent(f[1])
        /\ node.block_no = f[2]
        /\ node.name = Absent(f[3])
        /\ node.height = FloatParse(f[n - 3]).value
        /\ node.id = Absent(f[n - 2])
        /\ node.area_code = Absent(f[n - 1])
        /\ node.group_code = Absent(f[n])

\* the registry the table gives with line i left out
WithoutLine(i) ==
    get_amedas_nodes(SubSeq(csv_rows, 1, i - 1) \o SubSeq(csv_rows, i + 1, Len(csv_rows)))

\* C10 as stated, read in its favour (a well-formed line has at least 10
\* fields once stripped and a numeric elevation and block code, and no line
\* of the table makes the construction raise): a line of fewer than 10
\* tab-separated fields is skipped without error and contributes no entry,
\* and every well-formed line is loaded under its block code with its own
\* fields.
C10_MalformedSkippedOthersLoaded ==
    (loaded.done /\ \A i \in 1..Len(csv_rows) : ~Fatal(i)) =>
        \A i \in 1..Len(csv_rows) :
            Len(csv_rows[i]) < 10 =>
                /\ ~loaded.raised
                /\ loaded.nodes = WithoutLine(i).nodes
                /\ \A j \in 1..Len(csv_rows) :
                       Counted(j) =>
                           /\ Fields(j)[2] \in DOMAIN loaded.nodes
                           /\ HoldsFields(loaded.nodes[Fields(j)[2]], Fields(j))

\* C10 amended: the fields of a line are counted after the line is stripped
\* (leading and trailing empty fields do not count).  If some line of at least
\* 10 fields has a non-numeric elevation or block code, loading raises.
\* Otherwise loading does not raise, a line of fewer than 10 fields
\* contributes no entry, and every line of at least 10 fields is loaded under
\* its block code with its own fields unless a later such line has the same
\* block code, which then replaces it.
C10_SkippedAndLastWins ==
    loaded.done =>
        LET idx == 1..Len(csv_rows)
        IN  IF \E i \in idx : Fatal(i) THEN loaded.raised
            ELSE /\ ~loaded.raised
                 /\ DOMAIN loaded.nodes = {Fields(i)[2] : i \in {j \in idx : Counted(j)}}
                 /\ \A i \in idx :
                        (/\ Counted(i)
                         /\ \A j \in idx : (j > i /\ Counted(j)) => Fields(j)[2] # Fields(i)[2])
                        => HoldsFields(loaded.nodes[Fields(i)[2]], Fields(i))
                 /\ \A i \in idx :
                        ~Counted(i) =>
                            /\ ~WithoutLine(i).raised
                            /\ loaded.nodes = WithoutLine(i).nodes

\* a five-field line between two loaded lines, its block code not in the registry
C10_Witness ==
    /\ loaded.done /\ ~loaded.raised
    /\ Len(csv_rows) = 3
    /\ Len(csv_rows[2]) = 5
    /\ Counted(1) /\ Counted(3)
    /\ Fields(1)[2] # Fields(3)[2]
    /\ DOMAIN loaded.nodes = {Fields(1)[2], Fields(3)[2]}
    /\ csv_rows[2][2] \notin DOMAIN loaded.nodes

-----------------------------------------------------------------------------
\* The cache-entry invariant (specification Spec)

\* the (station, resolution, effective date) tuples of the save calls
SaveTuples ==
    {[block_no |-> b, data_type |-> t, date_to_use |-> DateToUse(t, d)] :
        b \in DOMAIN amedas_nodes, t \in SaveDataTypes, d \in SaveDates}

TuplePath(t) == FilePath(amedas_nodes[t.block_no], t.data_type, t.date_to_use)

\* C11: starting from an empty cache, after any sequence of save calls every
\* cache file that exists at the path of a tuple (resolution, station,
\* effective date) was written by a save call for that exact tuple whose
\* fetch obtained a non-empty body, and holds that body.
C11_FileProvesFetch ==
    fs0 = EmptyMap =>
        /\ DOMAIN fs \subseteq {TuplePath(t) : t \in SaveTuples}
        /\ \A t \in SaveTuples :
               TuplePath(t) \in DOMAIN fs =>
                   /\ TuplePath(t) \in DOMAIN origin
                   /\ LET w == origin[TuplePath(t)]
                      IN  /\ w.block_no = t.block_no
                          /\ w.data_type = t.data_type
                          /\ w.date_to_use = t.date_to_use
                          /\ w.requests # <<>>
                          /\ w.net.kind = "ok" /\ w.net.body # Empty
                          /\ DecodeSig(fs[TuplePath(t)]) = w.net.body

\* two cache files written by two calls, one of them for daily
C11_Witness ==
    /\ fs0 = EmptyMap
    /\ Cardinality(DOMAIN fs) = 2
    /\ \E p \in DOMAIN fs : origin[p].data_type = TDaily
    /\ IsSave /\ last.wrote /\ last.data_type = THourly

-----------------------------------------------------------------------------
\* The real-time resolution (specification SpecKeys)

\* C17: for the real-time resolution the URL depends only on the station's
\* alternate identifier and is the same for every date, while the cache path
\* still depends on the date: save calls for two different dates check two
\* different files and, each being a miss, each fetch that same URL, the
\* second also when the first has written its file.
C17_RealTimeUrlUndated ==
    (probe.done /\ probe.first.data_type = TRealTime) =>
        LET a == probe.first
            b == probe.second
            node == amedas_nodes[a.block_no]
            today == TTodayPrefix \o Fmt(node.id) \o TDotHtml
            r1 == save(node, TRealTime, a.target_date, FALSE, a.net, EmptyMap, {})
            r2 == save(node, TRealTime, b.target_date, FALSE, b.net, r1.fs, r1.dirs)
        IN  /\ a.url = today /\ b.url = today
            /\ a.requests = <<today>> /\ b.requests = <<today>>
            /\ \A d \in KeyDates : _construct_url(node, TRealTime, d) = today
            /\ a.file_path = FilePath(node, TRealTime, a.target_date)
            /\ b.file_path = FilePath(node, TRealTime, b.target_date)
            /\ a.target_date # b.target_date =>
                   /\ a.file_path # b.file_path
                   /\ r1.call = a
                   /\ ~r2.call.existed
                   /\ r2.call.requests = <<today>>
                   /\ r2.call.file_path = b.file_path

\* real-time requests for two different days, the first of them cached
C17_Witness ==
    /\ probe.done
    /\ probe.first.data_type = TRealTime
    /\ probe.first.target_date = Date(2016, 4, 12)
    /\ probe.second.target_date = Date(2016, 5, 13)
    /\ probe.first.wrote /\ probe.second.wrote
    /\ probe.first.file_path # probe.second.file_path
    /\ probe.first.url = probe.second.url

-----------------------------------------------------------------------------
\* Files left by a killed write (specification SpecCrash)

\* the files a killed write left and no later write replaced
Partial == {p \in DOMAIN origin : ~origin[p].whole}

\* C18: a file left by a process killed between opening it for writing and
\* writing the full body remains on disk (possibly empty); every later save
\* call for its tuple with force=false is a cache hit that sends no request and
\* leaves the file as it is, and only a call with force=true replaces it.
C18_PartialFileIsHit ==
    [][\A p \in Partial :
          /\ p \in DOMAIN fs
          /\ fs[p] # EncodeSig(origin[p].net.body)
          /\ (last'.op = "save" /\ last'.file_path = p /\ ~last'.force) =>
                 /\ last'.existed /\ ~last'.fetched /\ last'.requests = <<>>
                 /\ ~last'.ret /\ fs' = fs /\ p \in Partial'
          /\ (p \notin DOMAIN fs' \/ fs'[p] # fs[p]) =>
                 last'.force /\ last'.file_path = p]_vars

\* a non-forced call for the tuple of an empty file a killed write left
C18_Witness ==
    /\ IsSave /\ ~last.force /\ last.existed
    /\ last.file_path \in Partial
    /\ fs[last.file_path] = <<>>
    /\ last.net.kind = "ok" /\ last.net.body # Empty

-----------------------------------------------------------------------------
\* main(): the loops over resolutions, dates and targets

\* date.max
DateMax == Date(9999, 12, 31)

IsLeap(y) == (y % 4 = 0 /\ y % 100 # 0) \/ y % 400 = 0

DaysInMonth(y, m) ==
    IF m = 2 THEN (IF IsLeap(y) THEN 29 ELSE 28)
    ELSE IF m \in {4, 6, 9, 11} THEN 30
    ELSE 31

\* date <= date
DateLE(a, b) ==
    \/ a.year < b.year
    \/ a.year = b.year /\ a.month < b.month
    \/ a.year = b.year /\ a.month = b.month /\ a.day <= b.day

\* date + td(days=1): OverflowError beyond date.max
AddDay(d) ==
    IF d = DateMax THEN [raised |-> TRUE, error |-> "OverflowError", value |-> d]
    ELSE [raised |-> FALSE, error |-> "",
          value |-> IF d.day < DaysInMonth(d.year, d.month) THEN Date(d.year, d.month, d.day + 1)
                    ELSE IF d.month < 12 THEN Date(d.year, d.month + 1, 1)
                    ELSE Date(d.year + 1, 1, 1)]

\* date + relativedelta(months=1): the same day of the next month, cut down to
\* that month's last day; ValueError beyond year 9999
AddMonth(d) ==
    LET y == IF d.month = 12 THEN d.year + 1 ELSE d.year
        m == IF d.month = 12 THEN 1 ELSE d.month + 1
        last_day == DaysInMonth(y, m)
    IN  IF y > DateMax.year THEN [raised |-> TRUE, error |-> "ValueError", value |-> d]
        ELSE [raised |-> FALSE, error |-> "",
              value |-> Date(y, m, IF d.day > last_day THEN last_day ELSE d.day)]

\* the resolutions stepped by one day
DayResolutions == {T10min, THourly, TRealTime}

\* date_iter += td(days=1) if resolution in [...] else relativedelta(months=1)
StepDate(resolution, d) ==
    IF resolution \in DayResolutions THEN AddDay(d) ELSE AddMonth(d)

\* variant: `while date_iter < end_date`
ContinueLoopExclusive(date_iter, end_date) == DateLE(date_iter, end_date) /\ date_iter # end_date

\* while date_iter <= end_date
ContinueLoop(date_iter, end_date) == DateLE(date_iter, end_date)

\* variant: force always
ForceDownloadAlways(argv) == TRUE

\* force_download = "-f" in sys.argv
ForceDownload(argv) == \E i \in 1..Len(argv) : argv[i] = "-f"

\* variant: the delay follows network calls only
SleepsAfterFetchOnly(call) == call.fetched

\* time.sleep(0.2) follows node.save(...) unconditionally
SleepsAfter(call) == TRUE

\* the delay, in tenths of a second
SleepTenths == 2

\* what main leaves behind for each thing it does
Event(ev, st, block_no, call, tenths) ==
    [ev |-> ev, ri |-> st.ri, resolution |-> st.cfg.resolutions[st.ri], date |-> st.date_iter,
     ti |-> st.ti, block_no |-> block_no, call |-> call, tenths |-> tenths]

\* variant: no `if block_no in amedas_nodes`, the lookup raises KeyError
UnknownBlockRaises(st, block_no) ==
    [st EXCEPT !.pc = "raised", !.error = "KeyError"]

\* else: logger.warning("Unknown block number: %s", block_no)
UnknownBlock(st, block_no) ==
    [st EXCEPT !.events = Append(@, Event("warning", st, block_no, NoCall, 0)),
               !.ti = @ + 1]

\* the answers of the remote side
OkA == [kind |-> "ok", body |-> <<"A">>]
GetFails == [kind |-> "get_raises", body |-> Empty]

\* a target written in target.yaml as a number: not the text the registry is keyed by
IntTarget(text) == <<"<int>">> \o text

Config(argv, start_date, end_date, resolutions, targets, answers) ==
    [argv |-> argv, start_date |-> start_date, end_date |-> end_date,
     resolutions |-> resolutions, targets |-> targets, answers |-> answers]

\* target.yaml, the command line and the remote side of the runs explored
Scenarios ==
    { Config(<<>>, Date(2016, 4, 12), Date(2016, 4, 13), <<THourly, TDaily>>,
             <<TB9999, TB10000>>, {OkA, GetFails}),
      Config(<<"-f">>, Date(2016, 4, 12), Date(2016, 4, 12), <<THourly>>,
             <<TB9999>>, {OkA, GetFails}),
      Config(<<>>, Date(2016, 2, 27), Date(2016, 3, 2), <<T10min, TWeekly>>,
             <<TB47401, TB9999, IntTarget(TB10000), TB9999, TB10000>>, {OkA}),
      Config(<<>>, Date(2016, 12, 30), Date(2017, 1, 2), <<TRealTime>>,
             <<TB10000>>, {OkA, GetFails}),
      Config(<<>>, Date(2016, 4, 20), Date(2016, 5, 13), <<TDaily>>,
             <<TB9999>>, {OkA}),
      Config(<<>>, Date(2016, 1, 31), Date(2016, 4, 15), <<TDaily>>,
             <<TB9999>>, {OkA}),
      Config(<<>>, Date(2016, 11, 12), Date(2017, 2, 13), <<TDaily>>,
             <<TB9999, TB10000>>, {OkA}),
      Config(<<>>, Date(2016, 5, 13), Date(2016, 4, 12), <<THourly, TDaily, TWeekly>>,
             <<TB9999>>, {OkA}),
      Config(<<>>, Date(9999, 12, 30), Date(9999, 12, 31), <<THourly>>,
             <<TB9999>>, {OkA}),
      Config(<<>>, Date(9999, 11, 15), Date(9999, 12, 31), <<TDaily>>,
             <<TB9999>>, {OkA}),
      Config(<<>>, Date(2016, 4, 12), Date(2016, 4, 13), <<>>, <<TB9999>>, {OkA}),
      Config(<<>>, Date(2016, 4, 12), Date(2016, 4, 13), <<THourly>>, <<>>, {OkA}) }

\* the process before main's first statement
MainAt(cfg, run, first, fs_first) ==
    [pc |-> "start", run |-> run, cfg |-> cfg, force_download |-> FALSE,
     ri |-> 1, date_iter |-> cfg.start_date, ti |-> 1, error |-> "",
     events |-> <<>>, first |-> first, fs_first |-> fs_first]

InitMain ==
    /\ csv_rows = DefaultRows
    /\ loaded = NotLoaded
    /\ amedas_nodes = EmptyMap
    /\ fs0 = EmptyMap
    /\ fs = EmptyMap
    /\ dirs = {}
    /\ last = NoCall
    /\ ncalls = 0
    /\ probe = NoProbe
    /\ origin = EmptyMap
    /\ \E cfg \in Scenarios : mainst = MainAt(cfg, "first", <<>>, EmptyMap)

\* lines 142-154: the command line, the registry, target.yaml
MainStart ==
    /\ mainst.pc = "start"
    /\ loaded' = Loaded(csv_rows)
    /\ amedas_nodes' = loaded'.nodes
    /\ mainst' = [mainst EXCEPT !.force_download = ForceDownload(mainst.cfg.argv),
                                !.pc = IF loaded'.raised THEN "raised" ELSE "for_resolution",
                                !.error = IF loaded'.raised THEN "ValueError" ELSE ""]
    /\ UNCHANGED <<csv_rows, fs0, fs, dirs, last, ncalls, probe, origin>>

\* lines 160-161: the next resolution, date_iter = start_date
MainForResolution ==
    /\ mainst.pc = "for_resolution"
    /\ mainst.ri <= Len(mainst.cfg.resolutions)
    /\ mainst' = [mainst EXCEPT !.date_iter = mainst.cfg.start_date, !.pc = "while"]
    /\ UNCHANGED <<csv_rows, loaded, amedas_nodes, fs0, fs, dirs, last, ncalls, probe, origin>>

\* line 160: no resolution is left, main returns
MainReturn ==
    /\ mainst.pc = "for_resolution"
    /\ mainst.ri > Len(mainst.cfg.resolutions)
    /\ mainst' = [mainst EXCEPT !.pc = "done"]
    /\ UNCHANGED <<csv_rows, loaded, amedas_nodes, fs0, fs, dirs, last, ncalls, probe, origin>>

\* line 162 holds: the targets of this date, from the first
MainWhileEnter ==
    /\ mainst.pc = "while"
    /\ ContinueLoop(mainst.date_iter, mainst.cfg.end_date)
    /\ mainst' = [mainst EXCEPT !.ti = 1, !.pc = "for_block"]
    /\ UNCHANGED <<csv_rows, loaded, amedas_nodes, fs0, fs, dirs, last, ncalls, probe, origin>>

\* line 162 fails: on to the next resolution
MainWhileExit ==
    /\ mainst.pc = "while"
    /\ ~ContinueLoop(mainst.date_iter, mainst.cfg.end_date)
    /\ mainst' = [mainst EXCEPT !.ri = @ + 1, !.pc = "for_resolution"]
    /\ UNCHANGED <<csv_rows, loaded, amedas_nodes, fs0, fs, dirs, last, ncalls, probe, origin>>

\* lines 164-166: a target the registry knows is saved
MainSave(net) ==
    /\ mainst.pc = "for_block"
    /\ mainst.ti <= Len(mainst.cfg.targets)
    /\ mainst.cfg.targets[mainst.ti] \in DOMAIN amedas_nodes
    /\ LET block_no == mainst.cfg.targets[mainst.ti]
           node == amedas_nodes[block_no]
           r == save(node, mainst.cfg.resolutions[mainst.ri], mainst.date_iter,
                     mainst.force_download, net, fs, dirs)
           logged == [mainst EXCEPT
                        !.events = Append(@, Event("save", mainst, block_no, r.call, 0))]
       IN  /\ fs' = r.fs
           /\ dirs' = r.dirs
           /\ last' = r.call
           /\ origin' = Written(origin, r.call)
           /\ mainst' = IF r.call.raised
                        THEN [logged EXCEPT !.pc = "raised", !.error = "Exception"]
                        ELSE IF SleepsAfter(r.call)
                        THEN [logged EXCEPT !.pc = "sleep"]
                        ELSE [logged EXCEPT !.ti = @ + 1]
    /\ UNCHANGED <<csv_rows, loaded, amedas_nodes, fs0, ncalls, probe>>

\* line 167: time.sleep(0.2), then the next target
MainSleep ==
    /\ mainst.pc = "sleep"
    /\ mainst' = [mainst EXCEPT
                    !.events = Append(@, Event("sleep", mainst, mainst.cfg.targets[mainst.ti],
                                               NoCall, SleepTenths)),
                    !.ti = @ + 1, !.pc = "for_block"]
    /\ UNCHANGED <<csv_rows, loaded, amedas_nodes, fs0, fs, dirs, last, ncalls, probe, origin>>

\* lines 168-169: a target the registry does not know
MainUnknownBlock ==
    /\ mainst.pc = "for_block"
    /\ mainst.ti <= Len(mainst.cfg.targets)
    /\ mainst.cfg.targets[mainst.ti] \notin DOMAIN amedas_nodes
    /\ mainst' = UnknownBlock(mainst, mainst.cfg.targets[mainst.ti])
    /\ UNCHANGED <<csv_rows, loaded, amedas_nodes, fs0, fs, dirs, last, ncalls, probe, origin>>

\* lines 170-174: the targets are through, date_iter is stepped
MainStepDate ==
    /\ mainst.pc = "for_block"
    /\ mainst.ti > Len(mainst.cfg.targets)
    /\ LET n == StepDate(mainst.cfg.resolutions[mainst.ri], mainst.date_iter)
       IN  mainst' = IF n.raised
                     THEN [mainst EXCEPT !.pc = "raised", !.error = n.error]
                     ELSE [mainst EXCEPT !.date_iter = n.value, !.pc = "while"]
    /\ UNCHANGED <<csv_rows, loaded, amedas_nodes, fs0, fs, dirs, last, ncalls, probe, origin>>

\* the program is run a second time with the same command line and target.yaml,
\* on the cache the first run left
Rerun ==
    /\ mainst.pc = "done"
    /\ mainst.run = "first"
    /\ mainst' = MainAt(mainst.cfg, "second", mainst.events, fs)
    /\ loaded' = NotLoaded
    /\ amedas_nodes' = EmptyMap
    /\ UNCHANGED <<csv_rows, fs0, fs, dirs, last, ncalls, probe, origin>>

NextMain ==
    \/ MainStart
    \/ MainForResolution
    \/ MainReturn
    \/ MainWhileEnter
    \/ MainWhileExit
    \/ \E net \in mainst.cfg.answers : MainSave(net)
    \/ MainSleep
    \/ MainUnknownBlock
    \/ MainStepDate
    \/ Rerun

SpecMain == InitMain /\ [][NextMain]_vars

-----------------------------------------------------------------------------
\* The loops of main (specification SpecMain)

IsSaveEvent(e) == e.ev = "save"

\* the save calls of the current run, in order
SaveEvents == SelectSeq(mainst.events, IsSaveEvent)

\* the save calls of the first run, once it is over
FirstSaveEvents == SelectSeq(mainst.first, IsSaveEvent)

\* the positions in the configured targets of the stations the registry knows
KnownTargets ==
    {i \in 1..Len(mainst.cfg.targets) : mainst.cfg.targets[i] \in DOMAIN amedas_nodes}

\* main is through with the resolution at position ri
ResolutionOver(ri) ==
    /\ mainst.pc # "start"
    /\ mainst.ri > ri \/ mainst.pc \in {"done", "raised"}

RECURSIVE DaysBeforeMonth(_, _)
DaysBeforeMonth(y, m) ==
    IF m = 1 THEN 0 ELSE DaysBeforeMonth(y, m - 1) + DaysInMonth(y, m - 1)

\* the number of the day, counted from 0001-01-01 as day 1
Ordinal(d) ==
    (d.year - 1) * 365 + ((d.year - 1) \div 4) - ((d.year - 1) \div 100)
    + ((d.year - 1) \div 400) + DaysBeforeMonth(d.year, d.month) + d.day

MonthIndex(d) == d.year * 12 + d.month

\* the dates from a to b, both included
DatesIn(a, b) ==
    {d \in {Date(y, m, n) : y \in a.year..b.year, m \in 1..12, n \in 1..31} :
        /\ d.day <= DaysInMonth(d.year, d.month)
        /\ DateLE(a, d)
        /\ DateLE(d, b)}

\* C12: for each resolution main passes dates to save in increasing order,
\* from start_date, one day apart for 10min, hourly and real-time and one
\* calendar month apart for daily; no date after end_date is passed to save,
\* and for the one-day resolutions every date from start_date to end_date,
\* both included, is passed to save (for each target the registry knows).
C12_DatesVisited ==
    LET S == SaveEvents
        cfg == mainst.cfg
    IN  /\ \A i \in 1..Len(S) :
               /\ DateLE(cfg.start_date, S[i].date)
               /\ DateLE(S[i].date, cfg.end_date)
               /\ S[i].call.target_date = S[i].date
               /\ S[i].call.data_type = S[i].resolution
               /\ (i = 1 \/ (i > 1 /\ S[i - 1].ri # S[i].ri)) => S[i].date = cfg.start_date
        /\ \A i \in 1..(Len(S) - 1) :
               IF S[i].ri # S[i + 1].ri THEN S[i].ri < S[i + 1].ri
               ELSE \/ S[i + 1].date = S[i].date
                    \/ /\ S[i].resolution \in {T10min, THourly, TRealTime}
                       /\ Ordinal(S[i + 1].date) = Ordinal(S[i].date) + 1
                    \/ /\ S[i].resolution = TDaily
                       /\ MonthIndex(S[i + 1].date) = MonthIndex(S[i].date) + 1
                       /\ S[i + 1].date.day <= S[i].date.day
                    \/ /\ S[i].resolution \notin {T10min, THourly, TRealTime, TDaily}
                       /\ Ordinal(S[i + 1].date) > Ordinal(S[i].date)
        /\ \A ri \in 1..Len(cfg.resolutions) :
               (ResolutionOver(ri) /\ cfg.resolutions[ri] \in {T10min, THourly, TRealTime}) =>
                   \A d \in DatesIn(cfg.start_date, cfg.end_date), ti \in KnownTargets :
                       \E i \in 1..Len(S) : S[i].ri = ri /\ S[i].date = d /\ S[i].ti = ti

\* a run over the end of February of a leap year is through
C12_Witness ==
    /\ mainst.pc = "done"
    /\ mainst.cfg.start_date = Date(2016, 2, 27)
    /\ \E i \in 1..Len(SaveEvents) :
           SaveEvents[i].resolution = T10min /\ SaveEvents[i].date = Date(2016, 2, 29)
    /\ \E i \in 1..Len(SaveEvents) :
           SaveEvents[i].resolution = T10min /\ SaveEvents[i].date = Date(2016, 3, 2)

\* the events of one date of one resolution, delays left out
VisitEvents(ri, d) ==
    LET InVisit(e) == e.ev # "sleep" /\ e.ri = ri /\ e.date = d
    IN  SelectSeq(mainst.events, InVisit)

\* the (resolution, date) pairs main has begun
Visits == {<<mainst.events[i].ri, mainst.events[i].date>> : i \in 1..Len(mainst.events)}

\* main has left the loop over the targets of this resolution and date
VisitOver(ri, d) ==
    ~(/\ mainst.ri = ri /\ mainst.date_iter = d
      /\ mainst.pc \in {"for_block", "sleep"}
      /\ mainst.ti <= Len(mainst.cfg.targets))

\* C13: for each resolution and date visited, main goes through the configured
\* targets in their order: each entry the registry knows is passed to save
\* once, with that resolution and date, and an entry the registry does not
\* know leads to a warning only, without a save call or a request, and the
\* loop goes on to the entries after it: no exception ends main while it goes
\* through the targets.
C13_TargetsInOrder ==
    /\ \A v \in Visits :
           LET E == VisitEvents(v[1], v[2])
               targets == mainst.cfg.targets
           IN  /\ Len(E) <= Len(targets)
               /\ \A k \in 1..Len(E) :
                      /\ E[k].ti = k
                      /\ E[k].block_no = targets[k]
                      /\ E[k].ev = "save" <=> targets[k] \in DOMAIN amedas_nodes
                      /\ E[k].ev = "save" =>
                             /\ E[k].call.op = "save"
                             /\ E[k].call.block_no = targets[k]
                             /\ E[k].call.data_type = mainst.cfg.resolutions[v[1]]
                             /\ E[k].call.target_date = v[2]
                      /\ E[k].ev # "save" => E[k].ev = "warning" /\ E[k].call = NoCall
               /\ VisitOver(v[1], v[2]) => Len(E) = Len(targets)
    /\ mainst.pc = "raised" => mainst.ti > Len(mainst.cfg.targets)

\* a run whose targets hold two entries the registry does not know, and one
\* it knows twice, is through
C13_Witness ==
    /\ mainst.pc = "done"
    /\ Len(mainst.cfg.targets) = 5
    /\ LET E == VisitEvents(1, Date(2016, 2, 29))
       IN  /\ Len(E) = 5
           /\ E[1].ev = "warning" /\ E[2].ev = "save" /\ E[3].ev = "warning"
           /\ E[4].ev = "save" /\ E[5].ev = "save"

\* C14: every save call of main, a cache hit as well as one that sent a
\* request, is followed by the fixed delay before anything else is done;
\* requests are sent only inside save calls, one at most per call, so that no
\* two requests overlap and at least one delay lies between two requests.
C14_DelayAfterEverySave ==
    LET E == mainst.events
    IN  /\ \A i \in 1..Len(E) :
               /\ E[i].ev = "save" =>
                      /\ Len(E[i].call.requests) <= 1
                      /\ \/ i = Len(E) /\ mainst.pc = "sleep"
                         \/ i < Len(E) /\ E[i + 1].ev = "sleep"
                                       /\ E[i + 1].tenths = SleepTenths
               /\ E[i].ev # "save" => E[i].call = NoCall
        /\ \A i, j \in 1..Len(E) :
               (i < j /\ E[i].ev = "save" /\ E[j].ev = "save") =>
                   \E k \in (i + 1)..(j - 1) : E[k].ev = "sleep" /\ E[k].tenths > 0
        /\ mainst.pc = "sleep" => (Len(E) > 0 /\ E[Len(E)].ev = "save")

\* a cache hit, the delay, and then a save call that sends a request
C14_Witness ==
    \E i \in 1..(Len(mainst.events) - 2) :
        /\ mainst.events[i].ev = "save"
        /\ mainst.events[i].call.existed /\ ~mainst.events[i].call.fetched
        /\ mainst.events[i + 1].ev = "sleep"
        /\ mainst.events[i + 2].ev = "save"
        /\ mainst.events[i + 2].call.requests # <<>>

\* two save calls for one (resolution, station, effective date)
SameTuple(c, d) ==
    /\ c.data_type = d.data_type
    /\ c.block_no = d.block_no
    /\ c.date_to_use = d.date_to_use

NoForceFlag == \A i \in 1..Len(mainst.cfg.argv) : mainst.cfg.argv[i] # "-f"

\* C15: when main has run to its end without force and is run again with the
\* same configuration and without force, the second run sends a request only
\* for a tuple for which a fetch of the first run obtained no data; if every
\* fetch of the first run obtained a non-empty body the second run sends no
\* request and changes no file.
C15_SecondRunFetchesOnlyFailures ==
    (mainst.run = "second" /\ NoForceFlag) =>
        LET F == FirstSaveEvents
            S == SaveEvents
        IN  /\ \A i \in 1..Len(S) :
                   S[i].call.requests # <<>> =>
                       \E j \in 1..Len(F) :
                           /\ SameTuple(F[j].call, S[i].call)
                           /\ F[j].call.fetched /\ ~F[j].call.wrote
            /\ (\A j \in 1..Len(F) : F[j].call.fetched => F[j].call.wrote) =>
                   /\ \A i \in 1..Len(S) : S[i].call.requests = <<>> /\ ~S[i].call.wrote
                   /\ fs = mainst.fs_first

\* a second run is through that found one tuple cached and fetched another,
\* which the first run had failed to obtain
C15_Witness ==
    /\ mainst.run = "second" /\ mainst.pc = "done" /\ NoForceFlag
    /\ \E i \in 1..Len(SaveEvents) :
           SaveEvents[i].call.existed /\ ~SaveEvents[i].call.fetched
    /\ \E i \in 1..Len(SaveEvents) : SaveEvents[i].call.wrote

NoRepeats(seq) == \A i, j \in 1..Len(seq) : seq[i] = seq[j] => i = j

C19_RunsToCompletion == mainst.pc # "raised"

\* the first days of the months that hold a date from a to b
MonthKeys(a, b) ==
    {k \in {Date(y, m, 1) : y \in a.year..b.year, m \in 1..12} :
        \E n \in 1..DaysInMonth(k.year, k.month) :
            DateLE(a, Date(k.year, k.month, n)) /\ DateLE(Date(k.year, k.month, n), b)}

\* C20: for the daily resolution, when main is through with it, every month
\* that holds a date from start_date to end_date has been requested for every
\* target the registry knows, each month once.
C20_EveryMonthRequested ==
    \A ri \in 1..Len(mainst.cfg.resolutions) :
        (ResolutionOver(ri) /\ mainst.cfg.resolutions[ri] = TDaily) =>
            \A k \in MonthKeys(mainst.cfg.start_date, mainst.cfg.end_date), ti \in KnownTargets :
                Cardinality({i \in 1..Len(SaveEvents) :
                                /\ SaveEvents[i].ri = ri
                                /\ SaveEvents[i].ti = ti
                                /\ SaveEvents[i].call.date_to_use = k}) = 1

====
